---- MODULE Spec2Model ----
(***************************************************************************)
(* DenoKVStore (src/store.ts): a tough-cookie Store kept in a Deno KV.     *)
(*                                                                         *)
(* Representation of JavaScript strings.  A string is a sequence of        *)
(* symbols, and "" is <<>>.  A path is a sequence of characters, because   *)
(* pathMatch compares characters.  A domain is its sequence of labels      *)
(* ("foo.example.com" is <<"foo", "example", "com">>), because             *)
(* permuteDomain works on the labels between the dots.  A cookie name and  *)
(* a namespace segment are opaque, one symbol each.  null and undefined    *)
(* (the code tests both with "== null") are the one value Null, whose      *)
(* symbol belongs to no alphabet.                                          *)
(***************************************************************************)
EXTENDS Integers, Sequences, FiniteSets, TLC

VARIABLES kv, last, written, fault, pending

vars == <<kv, last, written, fault, pending>>

Null == <<"<null>">>

EmptyString == <<>>

\* JavaScript's !s for a Nullable<string>: null, undefined and "" are falsy.
Falsy(s) == s = Null \/ s = EmptyString

(***************************************************************************)
(* Bounds and input sets.                                                  *)
(***************************************************************************)
\* The most records the model lets the KV hold at once.
MaxRecords == 2

EXAMPLE_COM == <<"example", "com">>
FOO_EXAMPLE_COM == <<"foo", "example", "com">>
EXAMPLE_ORG == <<"example", "org">>
COM == <<"com">>
FOO_LOCAL == <<"foo", "local">>
A_FOO_LOCAL == <<"a", "foo", "local">>

P_FOO == <<"/", "f", "o", "o">>
P_FOO_SLASH == <<"/", "f", "o", "o", "/">>
P_FOO_BAR == <<"/", "f", "o", "o", "/", "b", "a", "r">>
P_FOOBAR == <<"/", "f", "o", "o", "b", "a", "r">>

N_FOO == <<"foo">>
N_BAR == <<"bar">>

V_BAR == "bar"
V_UPDATED == "updated"

(***************************************************************************)
(* Cookie Codec (tough-cookie): Cookie.toJSON and Cookie.fromJSON.         *)
(* A Cookie object carries every property; its serialized form carries    *)
(* only the properties that differ from the defaults.                      *)
(***************************************************************************)
serializableProperties == {"key", "value", "domain", "path"}

cookieDefaults ==
    [key |-> EmptyString, value |-> "", domain |-> Null, path |-> Null]

Cookie(domain, path, key, value) ==
    [key |-> key, value |-> value, domain |-> domain, path |-> path]

toJSON(cookie) ==
    [prop \in {q \in serializableProperties : cookie[q] # cookieDefaults[q]}
        |-> cookie[prop]]

fromJSON(obj) ==
    [prop \in serializableProperties
        |-> IF prop \in DOMAIN obj THEN obj[prop] ELSE cookieDefaults[prop]]

\* Stored values that are not objects: a string s is held as [string |-> s],
\* a boolean b as [boolean |-> b].
StringValue(s) == [string |-> s]

BooleanValue(b) == [boolean |-> b]

\* A string that is not JSON text.
MALFORMED == StringValue("{not json")

\* The values a condition takes as false.
FalsyValues == {StringValue(""), BooleanValue(FALSE)}

\* The absent value of "Cookie | undefined" and of "string[] | undefined";
\* a present value v of such a type is never the empty sequence.
Undefined == <<>>

Some(v) == <<v>>

\* Cookie.fromJSON(str): undefined for an empty value and for a string that
\* does not parse as JSON, else the cookie built from the object.  The only
\* strings of the model are the empty string and text that is not JSON.
Cookie_fromJSON(str) ==
    IF str \in FalsyValues THEN Undefined
    ELSE IF "string" \in DOMAIN str THEN Undefined
    ELSE Some(fromJSON(str))

(***************************************************************************)
(* RFC 6265 5.1.4 path-match (tough-cookie pathMatch).                     *)
(***************************************************************************)
startsWith(s, t) == Len(t) <= Len(s) /\ SubSeq(s, 1, Len(t)) = t

pathMatch(reqPath, cookiePath) ==
    IF cookiePath = reqPath THEN TRUE
    ELSE IF startsWith(reqPath, cookiePath)
         THEN \/ (Len(cookiePath) > 0 /\ cookiePath[Len(cookiePath)] = "/")
              \/ (Len(reqPath) > Len(cookiePath)
                    /\ reqPath[Len(cookiePath) + 1] = "/")
         ELSE FALSE

(***************************************************************************)
(* Domain expansion (tough-cookie getPublicSuffix and permuteDomain).      *)
(***************************************************************************)
PublicSuffixList == {<<"com">>, <<"org">>}

SPECIAL_USE_DOMAINS == {"local", "example", "invalid", "localhost", "test"}

SPECIAL_TREATMENT_DOMAINS == {"localhost", "invalid"}

\* The outcome of a call that throws.
Throws == <<"<throws>">>

Suffix(domain, n) == SubSeq(domain, Len(domain) - n + 1, Len(domain))

\* The registrable domain: the public suffix plus one label.  A top-level
\* label that is on no list is a public suffix (the list's default rule).
getDomain(domain) ==
    LET matching == {n \in 1..Len(domain) : Suffix(domain, n) \in PublicSuffixList}
        suffixLen == IF matching = {} THEN 1
                     ELSE CHOOSE n \in matching : \A m \in matching : m <= n
    IN  IF Len(domain) > suffixLen THEN Suffix(domain, suffixLen + 1) ELSE Null

getPublicSuffix(domain, allowSpecialUseDomain) ==
    LET topLevelDomain == domain[Len(domain)]
    IN  IF allowSpecialUseDomain /\ topLevelDomain \in SPECIAL_USE_DOMAINS
            /\ Len(domain) > 1
        THEN Suffix(domain, 2)
        ELSE IF allowSpecialUseDomain /\ topLevelDomain \in SPECIAL_USE_DOMAINS
                /\ topLevelDomain \in SPECIAL_TREATMENT_DOMAINS
        THEN <<topLevelDomain>>
        ELSE IF topLevelDomain \in SPECIAL_USE_DOMAINS
        THEN Throws
        ELSE getDomain(domain)

\* The permutations, shortest first; Undefined when there is no public
\* suffix.  Called only where getPublicSuffix does not throw.
permuteDomain(domain, allowSpecialUseDomain) ==
    LET pubSuf == getPublicSuffix(domain, allowSpecialUseDomain)
    IN  IF pubSuf = Null THEN Undefined
        ELSE IF pubSuf = domain THEN <<domain>>
        ELSE [i \in 1..(Len(domain) - Len(pubSuf) + 1)
                |-> Suffix(domain, Len(pubSuf) + i - 1)]

(***************************************************************************)
(* KV Engine (Deno.Kv).  The store is a function from the keys present to  *)
(* their values; a key is a sequence of segments.                          *)
(***************************************************************************)
EmptyKv == [k \in {} |-> Undefined]

KvGet(store, key) ==
    IF key \in DOMAIN store
    THEN [key |-> key, found |-> TRUE, value |-> store[key]]
    ELSE [key |-> key, found |-> FALSE]

KvSet(store, key, value) ==
    [k \in DOMAIN store \cup {key} |-> IF k = key THEN value ELSE store[k]]

KvDelete(store, key) ==
    [k \in DOMAIN store \ {key} |-> store[k]]

\* A key part is a string (Deno.KvKeyPart); null and undefined are not
\* key parts, and the Engine throws a TypeError for a key that holds one.
ValidKey(key) == \A i \in 1..Len(key) : key[i] # Null

InvalidKeyError == "TypeError: invalid key part"

RECURSIVE SetToSeq(_)
SetToSeq(S) ==
    IF S = {} THEN <<>>
    ELSE LET x == CHOOSE y \in S : TRUE IN <<x>> \o SetToSeq(S \ {x})

\* list({prefix}): the keys that begin with the prefix segments and are
\* longer than it, in the engine's key order (here: some fixed order).
KvList(store, keyPrefix) ==
    SetToSeq({k \in DOMAIN store :
                Len(k) > Len(keyPrefix) /\ startsWith(k, keyPrefix)})

\* entry.value as a condition: an absent entry has value null; an object,
\* as every value the store writes, is truthy.
Truthy(entry) == entry.found /\ entry.value \notin FalsyValues

(***************************************************************************)
(* DenoKVStore.                                                            *)
(***************************************************************************)
prefix == << <<"cookies">> >>

\* Variant: the key leaves out the cookie name.
CookieKeyDropsName(domain, path, key) == prefix \o <<domain, path>>

\* this.prefix.concat([domain, path, key])
CookieKey(domain, path, key) == prefix \o <<domain, path, key>>

\* Variant: the bulk-delete prefix leaves out the path.
PathPrefixDomainOnly(domain, path) == prefix \o <<domain>>

\* this.prefix.concat([domain, path])
PathPrefix(domain, path) == prefix \o <<domain, path>>

\* Variant: the scan of a candidate domain covers the whole namespace.
DomainPrefixWholeNamespace(curDomain) == prefix

\* this.prefix.concat([curDomain])
DomainPrefix(curDomain) == prefix \o <<curDomain>>

\* entry.key.slice(this.prefix.length)[1].toString()
KeyPath(key) == key[Len(prefix) + 2]

\* The error of a promise that resolved.
NoError == "none"

\* The Error getPublicSuffix throws for a special-use domain.
SpecialUseDomainError == "special use domain"

Resolved(store, value, calls) ==
    [status |-> "resolved", value |-> value, calls |-> calls, kv |-> store,
     error |-> NoError]

\* promiseCallback.reject(err as Error): the promise carries the error
\* that was caught.
Rejected(store, calls, err) ==
    [status |-> "rejected", value |-> Undefined, calls |-> calls, kv |-> store,
     error |-> err]

RECURSIVE Flatten(_)
Flatten(seqs) ==
    IF seqs = <<>> THEN <<>> ELSE Head(seqs) \o Flatten(Tail(seqs))

\* Cookie.fromJSON of every entry the filter keeps: "if (cookie)
\* results.push(cookie)".
\* Variant: the scan stops at the first entry that does not decode.
RECURSIVE DecodedUntilFailure(_, _)
DecodedUntilFailure(store, keys) ==
    IF keys = <<>> \/ Cookie_fromJSON(store[Head(keys)]) = Undefined THEN <<>>
    ELSE <<fromJSON(store[Head(keys)])>> \o DecodedUntilFailure(store, Tail(keys))

Decoded(store, keys) ==
    LET cookies == [i \in 1..Len(keys) |-> Cookie_fromJSON(store[keys[i]])]
        pushed == SelectSeq(cookies, LAMBDA cookie : cookie # Undefined)
    IN  [i \in 1..Len(pushed) |-> pushed[i][1]]

\* Variant: no test for an absent domain, path or name.
FindCookieNoGuard(store, domain, path, key) ==
    LET k == CookieKey(domain, path, key)
        result == KvGet(store, k)
    IN  Resolved(store,
                 IF Truthy(result) THEN Cookie_fromJSON(result.value)
                 ELSE Undefined,
                 <<[call |-> "get", key |-> k]>>)

FindCookie(store, domain, path, key) ==
    IF domain = Null \/ path = Null \/ key = Null
    THEN Resolved(store, Undefined, <<>>)
    ELSE LET k == CookieKey(domain, path, key)
             result == KvGet(store, k)
         IN  Resolved(store,
                      IF Truthy(result) THEN Cookie_fromJSON(result.value)
                      ELSE Undefined,
                      <<[call |-> "get", key |-> k]>>)

\* Variant: the path filter is applied to a null path too.
PathMatcherNoMatchAll(store, path, domainIndex) ==
    LET Keep(k) == Truthy(KvGet(store, k)) /\ pathMatch(path, KeyPath(k))
    IN  Decoded(store, SelectSeq(domainIndex, Keep))

\* matchAll, or the path-matching pathMatcher, over one domainIndex.
PathMatcher(store, path, domainIndex) ==
    LET Keep(k) == IF Falsy(path)
                   THEN Truthy(KvGet(store, k))
                   ELSE Truthy(KvGet(store, k)) /\ pathMatch(path, KeyPath(k))
    IN  Decoded(store, SelectSeq(domainIndex, Keep))

FindCookies(store, domain, path, allowSpecialUseDomain) ==
    IF Falsy(domain) THEN Resolved(store, <<>>, <<>>)
    ELSE IF getPublicSuffix(domain, allowSpecialUseDomain) = Throws
    THEN Rejected(store, <<>>, SpecialUseDomainError)
    ELSE LET permuted == permuteDomain(domain, allowSpecialUseDomain)
             domains == IF permuted = Undefined THEN <<domain>> ELSE permuted
         IN  Resolved(store,
                Flatten([i \in 1..Len(domains) |->
                    PathMatcher(store, path,
                                KvList(store, DomainPrefix(domains[i])))]),
                [i \in 1..Len(domains) |->
                    [call |-> "list", key |-> DomainPrefix(domains[i])]])

\* Variant: reading every cookie evicts the records it has read.
GetAllCookiesSweeps(store) ==
    LET iterator == KvList(store, prefix)
    IN  Resolved([k \in {x \in DOMAIN store : ~startsWith(x, prefix)} |-> store[k]],
                 Decoded(store, iterator),
                 <<[call |-> "list", key |-> prefix]>>)

GetAllCookies(store) ==
    LET iterator == KvList(store, prefix)
        kept == SelectSeq(iterator, LAMBDA k : Truthy(KvGet(store, k)))
    IN  Resolved(store, Decoded(store, kept),
                 <<[call |-> "list", key |-> prefix]>>)

\* Variant: every value of a triple is kept, under a key of its own.
PutCookieVersioned(store, cookie) ==
    LET k == prefix \o <<cookie.domain, cookie.path, cookie.key, <<cookie.value>>>>
    IN  Resolved(KvSet(store, k, toJSON(cookie)), Undefined,
                 <<[call |-> "set", key |-> k]>>)

\* Variant: a write does not replace an existing record.
PutCookieIfAbsent(store, cookie) ==
    IF cookie.domain = Null \/ cookie.path = Null \/ cookie.key = Null
    THEN Resolved(store, Undefined, <<>>)
    ELSE LET k == CookieKey(cookie.domain, cookie.path, cookie.key)
         IN  Resolved(IF k \in DOMAIN store THEN store
                      ELSE KvSet(store, k, toJSON(cookie)),
                      Undefined, <<[call |-> "set", key |-> k]>>)

\* Variant: no test for an absent domain, path or name.
PutCookieNoGuard(store, cookie) ==
    LET k == CookieKey(cookie.domain, cookie.path, cookie.key)
    IN  Resolved(KvSet(store, k, toJSON(cookie)), Undefined,
                 <<[call |-> "set", key |-> k]>>)

PutCookie(store, cookie) ==
    IF cookie.domain = Null \/ cookie.path = Null \/ cookie.key = Null
    THEN Resolved(store, Undefined, <<>>)
    ELSE LET k == CookieKey(cookie.domain, cookie.path, cookie.key)
         IN  Resolved(KvSet(store, k, toJSON(cookie)), Undefined,
                      <<[call |-> "set", key |-> k]>>)

RECURSIVE DeleteEach(_, _)
DeleteEach(store, entries) ==
    IF entries = <<>> THEN store
    ELSE DeleteEach(KvDelete(store, Head(entries)), Tail(entries))

DeleteCalls(entries) ==
    [i \in 1..Len(entries) |-> [call |-> "delete", key |-> entries[i]]]

\* Variant: the scan of deleteAll takes the whole Engine.
RemoveAllCookiesOfEngine(store) ==
    LET entries == KvList(store, <<>>)
    IN  Resolved(DeleteEach(store, entries), Undefined,
                 <<[call |-> "list", key |-> <<>>]>> \o DeleteCalls(entries))

\* Variant: the first entry of the scan is not deleted.
RemoveAllCookiesSkipsFirst(store) ==
    LET entries == KvList(store, prefix)
        rest == IF entries = <<>> THEN <<>> ELSE Tail(entries)
    IN  Resolved(DeleteEach(store, rest), Undefined,
                 <<[call |-> "list", key |-> prefix]>> \o DeleteCalls(rest))

RemoveAllCookies(store) ==
    LET entries == KvList(store, prefix)
    IN  Resolved(DeleteEach(store, entries), Undefined,
                 <<[call |-> "list", key |-> prefix]>> \o DeleteCalls(entries))

\* Variant: the delete covers every name under the domain and path.
RemoveCookieWholePath(store, domain, path, key) ==
    LET entries == KvList(store, PathPrefix(domain, path))
    IN  Resolved(DeleteEach(store, entries), Undefined, DeleteCalls(entries))

RemoveCookie(store, domain, path, key) ==
    LET k == CookieKey(domain, path, key)
    IN  Resolved(KvDelete(store, k), Undefined,
                 <<[call |-> "delete", key |-> k]>>)

RemoveCookies(store, domain, path) ==
    IF ~ValidKey(PathPrefix(domain, path))
    THEN Rejected(store, <<[call |-> "list", key |-> PathPrefix(domain, path)]>>,
                  InvalidKeyError)
    ELSE LET entries == KvList(store, PathPrefix(domain, path))
         IN  Resolved(DeleteEach(store, entries), Undefined,
                      <<[call |-> "list", key |-> PathPrefix(domain, path)]>>
                         \o DeleteCalls(entries))

\* Variant: an update is a rename, the record of the old cookie is deleted.
UpdateCookieRenames(store, oldCookie, newCookie) ==
    PutCookie(KvDelete(store, CookieKey(oldCookie.domain, oldCookie.path,
                                        oldCookie.key)),
              newCookie)

\* Variant: the new cookie is written at the key of the old cookie.
UpdateCookieInPlace(store, oldCookie, newCookie) ==
    LET k == CookieKey(oldCookie.domain, oldCookie.path, oldCookie.key)
    IN  Resolved(KvSet(store, k, toJSON(newCookie)), Undefined,
                 <<[call |-> "set", key |-> k]>>)

\* this.putCookie(newCookie), with or without the callback.
UpdateCookie(store, oldCookie, newCookie) == PutCookie(store, newCookie)

(***************************************************************************)
(* A second DenoKVStore on the same Deno.Kv, constructed with another      *)
(* prefix.  The store uses its prefix only as the head of the keys it      *)
(* builds and scans, so the second store acts on the Engine as the first   *)
(* one acts on the Engine with the two prefixes exchanged.                 *)
(***************************************************************************)
otherPrefix == << <<"jar">>, <<"cookies">> >>

\* A key with prefix and otherPrefix exchanged at its head.
Exchanged(k) ==
    IF startsWith(k, prefix)
    THEN otherPrefix \o SubSeq(k, Len(prefix) + 1, Len(k))
    ELSE IF startsWith(k, otherPrefix)
    THEN prefix \o SubSeq(k, Len(otherPrefix) + 1, Len(k))
    ELSE k

Swap(store) ==
    [k \in {Exchanged(x) : x \in DOMAIN store} |-> store[Exchanged(k)]]

\* The outcome, on the Engine, of an operation of the second store, from
\* the outcome r of the first store's operation on the exchanged Engine.
Other(r) ==
    [r EXCEPT !.kv = Swap(r.kv),
              !.calls = [i \in 1..Len(r.calls) |->
                            [call |-> r.calls[i].call,
                             key |-> Exchanged(r.calls[i].key)]]]

(***************************************************************************)
(* The state machine.  kv is the Deno KV; last is the operation that       *)
(* completed last, with its arguments, its outcome and the Engine calls it *)
(* made; written is a history variable: the cookie handed to the latest    *)
(* putCookie of each triple that no delete has removed since; fault is the *)
(* failure the Engine is set to make; pending holds the operations in      *)
(* flight of the callers that do not await one another.                    *)
(***************************************************************************)
Triple(domain, path, key) == <<domain, path, key>>

CookieTriple(cookie) == Triple(cookie.domain, cookie.path, cookie.key)

\* The Engine works.
NoFault == [at |-> 0, error |-> NoError]

\* Variant: a failure restores what the operation had deleted.
AbortedRollsBack(store, r, at, err) ==
    Rejected(store, SubSeq(r.calls, 1, at), err)

\* The operation whose run is r on a working Engine, when its at-th Engine
\* call throws err: the calls before it have taken effect (they are deletes
\* whenever the failing call is not the first), no call is made after it,
\* and the catch clause rejects with err.
Aborted(store, r, at, err) ==
    LET deleted == {r.calls[i].key :
                        i \in {j \in 1..(at - 1) : r.calls[j].call = "delete"}}
    IN  Rejected([k \in DOMAIN store \ deleted |-> store[k]],
                 SubSeq(r.calls, 1, at), err)

Outcome(store, flt, r) ==
    IF flt.at \in 1..Len(r.calls)
    THEN Aborted(store, r, flt.at, flt.error)
    ELSE r

\* The cookies of a history whose record a store holds.
Kept(history, store) ==
    [t \in {u \in DOMAIN history : CookieKey(u[1], u[2], u[3]) \in DOMAIN store}
        |-> history[t]]

Done(op, args, r) ==
    [op |-> op, args |-> args, status |-> r.status, value |-> r.value,
     calls |-> r.calls, error |-> r.error]

Init ==
    /\ kv = EmptyKv
    /\ last = [op |-> "new", args |-> <<>>, status |-> "resolved",
               value |-> Undefined, calls |-> <<>>, error |-> NoError]
    /\ written = EmptyKv
    /\ fault = NoFault
    /\ pending = <<>>

\* The Engine is set to fail: the at-th Engine call of the next operation
\* throws error.
armFault(at, error) ==
    /\ fault = NoFault
    /\ fault' = [at |-> at, error |-> error]
    /\ UNCHANGED <<kv, last, written, pending>>

findCookie(domain, path, key) ==
    LET r == Outcome(kv, fault, FindCookie(kv, domain, path, key))
    IN  /\ last' = Done("findCookie", <<domain, path, key>>, r)
        /\ kv' = r.kv
        /\ fault' = NoFault
        /\ UNCHANGED <<written, pending>>

findCookies(domain, path, allowSpecialUseDomain) ==
    LET r == Outcome(kv, fault,
                     FindCookies(kv, domain, path, allowSpecialUseDomain))
    IN  /\ last' = Done("findCookies", <<domain, path, allowSpecialUseDomain>>, r)
        /\ kv' = r.kv
        /\ fault' = NoFault
        /\ UNCHANGED <<written, pending>>

getAllCookies ==
    LET r == Outcome(kv, fault, GetAllCookies(kv))
    IN  /\ last' = Done("getAllCookies", <<>>, r)
        /\ kv' = r.kv
        /\ fault' = NoFault
        /\ UNCHANGED <<written, pending>>

putCookie(cookie) ==
    LET r == Outcome(kv, fault, PutCookie(kv, cookie))
    IN  /\ Cardinality(DOMAIN r.kv) <= MaxRecords
        /\ kv' = r.kv
        /\ last' = Done("putCookie", <<cookie>>, r)
        /\ written' =
             IF r.calls = <<>> \/ r.status = "rejected" THEN written
             ELSE KvSet(written, Triple(cookie.domain, cookie.path, cookie.key),
                        cookie)
        /\ fault' = NoFault
        /\ UNCHANGED pending

updateCookie(oldCookie, newCookie) ==
    LET r == Outcome(kv, fault, UpdateCookie(kv, oldCookie, newCookie))
    IN  /\ Cardinality(DOMAIN r.kv) <= MaxRecords
        /\ kv' = r.kv
        /\ last' = Done("updateCookie", <<oldCookie, newCookie>>, r)
        /\ written' =
             IF r.calls = <<>> \/ r.status = "rejected" THEN written
             ELSE KvSet(written,
                        Triple(newCookie.domain, newCookie.path, newCookie.key),
                        newCookie)
        /\ fault' = NoFault
        /\ UNCHANGED pending

\* Another client of the Engine sets a value at a key.
kvSet(key, value) ==
    /\ Cardinality(DOMAIN kv \cup {key}) <= MaxRecords
    /\ kv' = KvSet(kv, key, value)
    /\ last' = Done("kv.set", <<key, value>>,
                    Resolved(kv', Undefined, <<[call |-> "set", key |-> key]>>))
    /\ UNCHANGED <<written, fault, pending>>

otherPutCookie(cookie) ==
    LET r == Other(PutCookie(Swap(kv), cookie))
    IN  /\ Cardinality(DOMAIN r.kv) <= MaxRecords
        /\ kv' = r.kv
        /\ last' = Done("other.putCookie", <<cookie>>, r)
        /\ UNCHANGED <<written, fault, pending>>

otherGetAllCookies ==
    LET r == Other(GetAllCookies(Swap(kv)))
    IN  /\ kv' = r.kv
        /\ last' = Done("other.getAllCookies", <<>>, r)
        /\ UNCHANGED <<written, fault, pending>>

otherRemoveCookies(domain, path) ==
    LET r == Other(RemoveCookies(Swap(kv), domain, path))
    IN  /\ kv' = r.kv
        /\ last' = Done("other.removeCookies", <<domain, path>>, r)
        /\ UNCHANGED <<written, fault, pending>>

otherRemoveAllCookies ==
    LET r == Other(RemoveAllCookies(Swap(kv)))
    IN  /\ kv' = r.kv
        /\ last' = Done("other.removeAllCookies", <<>>, r)
        /\ UNCHANGED <<written, fault, pending>>

removeAllCookies ==
    LET r == Outcome(kv, fault, RemoveAllCookies(kv))
    IN  /\ kv' = r.kv
        /\ last' = Done("removeAllCookies", <<>>, r)
        /\ written' = IF r.status = "rejected" THEN Kept(written, r.kv)
                      ELSE EmptyKv
        /\ fault' = NoFault
        /\ UNCHANGED pending

removeCookie(domain, path, key) ==
    LET r == Outcome(kv, fault, RemoveCookie(kv, domain, path, key))
    IN  /\ kv' = r.kv
        /\ last' = Done("removeCookie", <<domain, path, key>>, r)
        /\ written' = IF r.status = "rejected" THEN Kept(written, r.kv)
                      ELSE KvDelete(written, Triple(domain, path, key))
        /\ fault' = NoFault
        /\ UNCHANGED pending

removeCookies(domain, path) ==
    LET r == Outcome(kv, fault, RemoveCookies(kv, domain, path))
    IN  /\ kv' = r.kv
        /\ last' = Done("removeCookies", <<domain, path>>, r)
        /\ written' =
             IF r.status = "rejected" THEN Kept(written, r.kv)
             ELSE [t \in {u \in DOMAIN written :
                            u[1] # domain \/ u[2] # path} |-> written[t]]
        /\ fault' = NoFault
        /\ UNCHANGED pending

(***************************************************************************)
(* Spec: the point and bulk operations, one caller, one operation at a     *)
(* time.                                                                   *)
(***************************************************************************)
\* A domain and a sub-domain of it.
Domains == {EXAMPLE_COM, FOO_EXAMPLE_COM}

Paths == {P_FOO, P_FOO_BAR}

Names == {N_FOO, N_BAR}

Values == {"", V_UPDATED}

\* Cookies with an identity, and one cookie for each missing part of it.
Cookies ==
    {Cookie(d, p, n, v) : d \in Domains, p \in Paths, n \in Names, v \in Values}
        \cup {Cookie(Null, P_FOO, N_FOO, V_BAR),
              Cookie(EXAMPLE_COM, Null, N_FOO, V_BAR),
              Cookie(EXAMPLE_COM, P_FOO, Null, V_BAR)}

Triples ==
    {Triple(d, p, n) : d \in Domains, p \in Paths, n \in Names}
        \cup {Triple(Null, P_FOO, N_FOO),
              Triple(EXAMPLE_COM, Null, N_FOO),
              Triple(EXAMPLE_COM, P_FOO, Null)}

Next ==
    \/ \E cookie \in Cookies : putCookie(cookie)
    \/ \E t \in Triples : findCookie(t[1], t[2], t[3])
    \/ getAllCookies
    \/ \E d \in Domains, p \in Paths, n \in Names : removeCookie(d, p, n)
    \/ \E d \in Domains, p \in Paths : removeCookies(d, p)
    \/ removeAllCookies

Spec == Init /\ [][Next]_vars

(***************************************************************************)
(* SpecMatch: retrieval by domain and path over the stores putCookie       *)
(* builds.                                                                 *)
(***************************************************************************)
MatchDomains == {EXAMPLE_COM, FOO_EXAMPLE_COM, EXAMPLE_ORG, COM, FOO_LOCAL}

MatchPaths == {P_FOO, P_FOO_SLASH, P_FOOBAR}

MatchCookies == {Cookie(d, p, N_FOO, V_BAR) : d \in MatchDomains, p \in MatchPaths}

RequestDomains ==
    {EXAMPLE_COM, FOO_EXAMPLE_COM, COM, A_FOO_LOCAL, EmptyString, Null}

RequestPaths == {Null, EmptyString, P_FOO, P_FOO_BAR, P_FOOBAR}

NextMatch ==
    \/ \E cookie \in MatchCookies : putCookie(cookie)
    \/ \E d \in RequestDomains, p \in RequestPaths, a \in BOOLEAN :
            findCookies(d, p, a)

SpecMatch == Init /\ [][NextMatch]_vars

(***************************************************************************)
(* Callers that do not await one another.  An operation is suspended at    *)
(* each of its Engine calls: a putCookie at its set; a bulk delete at the  *)
(* scan, which hands it the entries stored at that time, and at the delete *)
(* of every scanned entry.  pending[c] is the operation of caller c: pc    *)
(* tells where it stands, scan holds the entries it has still to delete,   *)
(* and two history fields record what the properties speak of: wiped, the  *)
(* keys it deleted while they held a record written after its scan, and    *)
(* overlapped, whether a putCookie on the same key was in flight when it   *)
(* was called; region, the keys stored under its scan prefix when it was   *)
(* called, and rewritten, the keys set since.  The scan is lazy: the       *)
(* Engine hands over the entries in batches, in key order, each batch read *)
(* when it is asked for, from the key after the last one handed over.      *)
(***************************************************************************)
With(f, c, rec) == [d \in DOMAIN f \cup {c} |-> IF d = c THEN rec ELSE f[d]]

InFlight(c) == c \in DOMAIN pending /\ pending[c].pc # "settled"

Called(c, op) ==
    /\ c \in DOMAIN pending
    /\ pending[c].op = op
    /\ pending[c].pc = "called"

\* The order of the keys in the Engine (here: some fixed order of the keys
\* the callers can store).
KeyOrder ==
    SetToSeq({CookieKey(d, p, n) : d \in Domains, p \in Paths, n \in Names})

KeyRank(k) == CHOOSE i \in 1..Len(KeyOrder) : KeyOrder[i] = k

\* The keys a batch of a scan hands over: the first `size` stored keys under
\* keyPrefix that come after the cursor.
NextBatch(store, keyPrefix, cursor, size) ==
    LET rest == SelectSeq(KeyOrder,
                          LAMBDA k : /\ k \in DOMAIN store
                                     /\ Len(k) > Len(keyPrefix)
                                     /\ startsWith(k, keyPrefix)
                                     /\ KeyRank(k) > cursor)
    IN  IF Len(rest) <= size THEN rest ELSE SubSeq(rest, 1, size)

\* The entries of a scan: Deno.KvEntry, a key and the value read.
Entries(store, keys) ==
    [i \in 1..Len(keys) |-> [key |-> keys[i], value |-> store[keys[i]]]]

\* Variant: the delete is conditional on the entry being as it was scanned.
DeleteEntryIfUnchanged(store, entry) ==
    IF entry.key \in DOMAIN store /\ store[entry.key] = entry.value
    THEN KvDelete(store, entry.key)
    ELSE store

\* await this.kv.delete(entry.key)
DeleteEntry(store, entry) == KvDelete(store, entry.key)

\* Variant: deleteMatching scans the whole domain.
ScanPrefixOfDomain(op, args) ==
    IF op = "removeAllCookies" THEN prefix ELSE DomainPrefix(args[1])

\* The prefix a bulk delete scans.
ScanPrefix(op, args) ==
    IF op = "removeAllCookies" THEN prefix ELSE PathPrefix(args[1], args[2])

call(c, op, args) ==
    /\ ~InFlight(c)
    /\ pending' =
         With(pending, c,
              [op |-> op, args |-> args, pc |-> "called", scan |-> <<>>,
               cursor |-> 0, exhausted |-> FALSE,
               calls |-> <<>>, wiped |-> {},
               region |-> IF op = "putCookie" THEN {}
                          ELSE {k \in DOMAIN kv :
                                  startsWith(k, ScanPrefix(op, args))},
               rewritten |-> {},
               overlapped |->
                   /\ op = "putCookie"
                   /\ \E d \in DOMAIN pending :
                          /\ Called(d, "putCookie")
                          /\ CookieTriple(pending[d].args[1])
                               = CookieTriple(args[1])])
    /\ UNCHANGED <<kv, last, written, fault>>

\* The Engine set of a putCookie in flight, and its resolution.
awaitSet(c) ==
    /\ Called(c, "putCookie")
    /\ LET cookie == pending[c].args[1]
           r == PutCookie(kv, cookie)
       IN  /\ kv' = r.kv
           /\ last' = Done("putCookie", <<cookie>>, r)
           /\ written' = KvSet(written, CookieTriple(cookie), cookie)
           /\ pending' =
                With([d \in DOMAIN pending |->
                        IF InFlight(d)
                        THEN [pending[d] EXCEPT
                                !.rewritten = @ \cup {r.calls[1].key}]
                        ELSE pending[d]],
                     c, [pending[c] EXCEPT !.pc = "settled", !.calls = r.calls])
    /\ UNCHANGED fault

\* The scan of a bulk delete in flight reads a batch of at most `size`
\* entries: the first batch, or the next one when the entries of the batch
\* before have been deleted and that batch was full.
awaitList(c, size) ==
    /\ \/ Called(c, "removeAllCookies")
       \/ Called(c, "removeCookies")
       \/ /\ c \in DOMAIN pending
          /\ pending[c].pc = "deleting"
          /\ pending[c].scan = <<>>
          /\ ~pending[c].exhausted
    /\ LET keyPrefix == ScanPrefix(pending[c].op, pending[c].args)
           batch == NextBatch(kv, keyPrefix, pending[c].cursor, size)
       IN  pending' =
             With(pending, c,
                  [pending[c] EXCEPT
                     !.pc = "deleting",
                     !.scan = Entries(kv, batch),
                     !.cursor = IF batch = <<>> THEN @
                                ELSE KeyRank(batch[Len(batch)]),
                     !.exhausted = Len(batch) < size,
                     !.calls = Append(@, [call |-> "list", key |-> keyPrefix])])
    /\ UNCHANGED <<kv, last, written, fault>>

\* The delete of the next scanned entry.
awaitDelete(c) ==
    /\ c \in DOMAIN pending
    /\ pending[c].pc = "deleting"
    /\ pending[c].scan # <<>>
    /\ LET entry == Head(pending[c].scan)
           rewritten == entry.key \in DOMAIN kv /\ kv[entry.key] # entry.value
       IN  /\ kv' = DeleteEntry(kv, entry)
           /\ written' = Kept(written, kv')
           /\ pending' =
                With(pending, c,
                     [pending[c] EXCEPT
                        !.scan = Tail(@),
                        !.calls = Append(@, [call |-> "delete",
                                             key |-> entry.key]),
                        !.wiped = IF rewritten THEN @ \cup {entry.key} ELSE @])
    /\ UNCHANGED <<last, fault>>

\* The scan is exhausted: the bulk delete resolves.
resolveDelete(c) ==
    /\ c \in DOMAIN pending
    /\ pending[c].pc = "deleting"
    /\ pending[c].scan = <<>>
    /\ pending[c].exhausted
    /\ last' = Done(pending[c].op, pending[c].args,
                    Resolved(kv, Undefined, pending[c].calls))
    /\ pending' = With(pending, c, [pending[c] EXCEPT !.pc = "settled"])
    /\ UNCHANGED <<kv, written, fault>>

(***************************************************************************)
(* SpecConcurrent: two callers, writes and bulk deletes in flight at the   *)
(* same time.                                                              *)
(***************************************************************************)
Callers == {"a", "b"}

\* The batch sizes of a scan: one entry at a time, or more entries than the
\* Engine holds.
BatchSizes == {1, MaxRecords + 1}

ConcurrentCookies ==
    {Cookie(EXAMPLE_COM, P_FOO, N_FOO, v) : v \in Values}
        \cup {Cookie(EXAMPLE_COM, P_FOO_BAR, N_FOO, "")}

NextConcurrent ==
    \/ \E c \in Callers, cookie \in ConcurrentCookies :
           call(c, "putCookie", <<cookie>>)
    \/ \E c \in Callers : call(c, "removeAllCookies", <<>>)
    \/ \E c \in Callers : call(c, "removeCookies", <<EXAMPLE_COM, P_FOO>>)
    \/ \E c \in Callers : awaitSet(c)
    \/ \E c \in Callers, size \in BatchSizes : awaitList(c, size)
    \/ \E c \in Callers : awaitDelete(c)
    \/ \E c \in Callers : resolveDelete(c)

SpecConcurrent == Init /\ [][NextConcurrent]_vars

(***************************************************************************)
(* SpecAll: every operation of the store, one caller, one operation at a   *)
(* time.                                                                   *)
(***************************************************************************)
AllCookies ==
    {Cookie(d, p, N_FOO, v) : d \in Domains, p \in Paths, v \in Values}
        \cup {Cookie(EXAMPLE_COM, Null, N_FOO, V_BAR)}

OldCookies ==
    {Cookie(EXAMPLE_COM, P_FOO, N_FOO, ""),
     Cookie(FOO_EXAMPLE_COM, P_FOO_BAR, N_FOO, V_UPDATED)}

NextAll ==
    \/ \E cookie \in AllCookies : putCookie(cookie)
    \/ \E old \in OldCookies, new \in AllCookies : updateCookie(old, new)
    \/ \E d \in Domains, p \in Paths \cup {Null} : findCookie(d, p, N_FOO)
    \/ \E d \in Domains, p \in Paths \cup {Null} : findCookies(d, p, FALSE)
    \/ getAllCookies
    \/ \E d \in Domains, p \in Paths : removeCookie(d, p, N_FOO)
    \/ \E d \in Domains, p \in Paths \cup {Null} : removeCookies(d, p)
    \/ removeAllCookies

SpecAll == Init /\ [][NextAll]_vars

(***************************************************************************)
(* SpecForeign: the reads of the store over records some of which were     *)
(* not written by the store and do not decode.                             *)
(***************************************************************************)
ForeignCookies == {Cookie(d, p, N_FOO, "") : d \in Domains, p \in Paths}

ForeignKeys ==
    {CookieKey(d, p, N_FOO) : d \in Domains, p \in Paths}
        \cup {CookieKey(EXAMPLE_COM, P_FOO, N_BAR)}

ForeignValues == {MALFORMED} \cup FalsyValues

NextForeign ==
    \/ \E cookie \in ForeignCookies : putCookie(cookie)
    \/ \E key \in ForeignKeys, value \in ForeignValues : kvSet(key, value)
    \/ \E d \in Domains, p \in Paths \cup {Null} : findCookies(d, p, FALSE)
    \/ \E d \in Domains, p \in Paths : findCookie(d, p, N_FOO)
    \/ getAllCookies

SpecForeign == Init /\ [][NextForeign]_vars

(***************************************************************************)
(* SpecFault: every operation of the store over an Engine that may throw   *)
(* at any one of the operation's calls.                                    *)
(***************************************************************************)
FaultCookies == {Cookie(d, p, N_FOO, "") : d \in Domains, p \in Paths}

\* The errors of the Engine: an I/O fault, a closed handle.
EngineErrors == {"I/O fault", "closed handle"}

\* A bulk delete makes a list call and a delete call for every record.
FaultPoints == 1..(MaxRecords + 1)

NextFault ==
    \/ \E at \in FaultPoints, error \in EngineErrors : armFault(at, error)
    \/ \E cookie \in FaultCookies : putCookie(cookie)
    \/ \E old, new \in FaultCookies : updateCookie(old, new)
    \/ \E d \in Domains, p \in Paths : findCookie(d, p, N_FOO)
    \/ \E d \in Domains, p \in Paths \cup {Null} : findCookies(d, p, FALSE)
    \/ getAllCookies
    \/ \E d \in Domains, p \in Paths : removeCookie(d, p, N_FOO)
    \/ \E d \in Domains, p \in Paths : removeCookies(d, p)
    \/ removeAllCookies

SpecFault == Init /\ [][NextFault]_vars

(***************************************************************************)
(* SpecNamespace: two stores on one Engine, with prefixes neither of which *)
(* begins with the other.                                                  *)
(***************************************************************************)
NsCookies == {Cookie(d, P_FOO, N_FOO, v) : d \in Domains, v \in Values}

NextNamespace ==
    \/ \E cookie \in NsCookies : putCookie(cookie)
    \/ \E old, new \in NsCookies : updateCookie(old, new)
    \/ \E d \in Domains : findCookie(d, P_FOO, N_FOO)
    \/ \E d \in Domains, p \in {P_FOO, Null} : findCookies(d, p, FALSE)
    \/ getAllCookies
    \/ \E d \in Domains : removeCookie(d, P_FOO, N_FOO)
    \/ \E d \in Domains : removeCookies(d, P_FOO)
    \/ removeAllCookies
    \/ \E cookie \in NsCookies : otherPutCookie(cookie)
    \/ otherGetAllCookies
    \/ \E d \in Domains : otherRemoveCookies(d, P_FOO)
    \/ otherRemoveAllCookies

SpecNamespace == Init /\ [][NextNamespace]_vars

(***************************************************************************)
(* Vocabulary of the properties.                                           *)
(***************************************************************************)
KeyDomain(k) == k[Len(prefix) + 1]

KeyName(k) == k[Len(prefix) + 3]

Range(seq) == {seq[i] : i \in 1..Len(seq)}

Incomplete(t) == t[1] = Null \/ t[2] = Null \/ t[3] = Null

\* readAll's count, and readOne, taken on a store.
ReadAllCount(store) == Len(GetAllCookies(store).value)

ReadOne(store, t) == FindCookie(store, t[1], t[2], t[3]).value

\* C1: after writes on distinct (domain, path, name) triples, readOne on a
\* written triple returns a cookie equal, as the tests compare cookies (by
\* their serialized form), to the cookie written for that triple.  `written`
\* holds the cookie of the latest write of every triple not deleted since.
C1_RoundTrip ==
    (last.op = "findCookie" /\ <<last.args[1], last.args[2], last.args[3]>>
                                    \in DOMAIN written)
        => /\ last.status = "resolved"
           /\ last.value # Undefined
           /\ toJSON(last.value[1])
                = toJSON(written[<<last.args[1], last.args[2], last.args[3]>>])

C1_Witness ==
    /\ last.op = "findCookie"
    /\ Cardinality(DOMAIN written) >= 2
    /\ <<last.args[1], last.args[2], last.args[3]>> \in DOMAIN written
    /\ last.value # Undefined
    /\ last.value[1].value = ""

\* C2: readAll never returns two cookies of one triple; a write on the
\* triple of an existing record leaves the readAll count unchanged, a write
\* on a new triple raises it by exactly one, and readOne on the written
\* triple then returns the written cookie.
AtMostOnePerTriple(store) ==
    LET all == GetAllCookies(store).value
    IN  \A i, j \in 1..Len(all) :
            CookieTriple(all[i]) = CookieTriple(all[j]) => i = j

C2_WriteStep ==
    (last'.op = "putCookie" /\ ~Incomplete(CookieTriple(last'.args[1])))
        => LET cookie == last'.args[1]
               existed == ReadOne(kv, CookieTriple(cookie)) # Undefined
           IN  /\ ReadAllCount(kv')
                    = ReadAllCount(kv) + (IF existed THEN 0 ELSE 1)
               /\ ReadOne(kv', CookieTriple(cookie)) = Some(cookie)

C2_OneRecordPerTriple ==
    /\ []AtMostOnePerTriple(kv)
    /\ [][C2_WriteStep]_vars

C2_Witness ==
    /\ last.op = "putCookie"
    /\ ReadAllCount(kv) = 2
    /\ written[CookieTriple(last.args[1])].value = V_UPDATED
    /\ \E t \in DOMAIN written :
            /\ t # CookieTriple(last.args[1])
            /\ t[1] = last.args[1].domain
            /\ t[2] = last.args[1].path

(***************************************************************************)
(* Retrieval by domain and path.                                           *)
(***************************************************************************)
IsFindCookies == last.op = "findCookies" /\ last.status = "resolved"

\* The request domain itself and its super-domains: the domains made of
\* the last labels of the request domain.
SelfAndSuperDomains(domain) == {Suffix(domain, n) : n \in 1..Len(domain)}

\* The candidate domain set of a request: what domain expansion produces,
\* or the exact request domain when it produces nothing.
CandidateDomains(domain, allowBroad) ==
    IF permuteDomain(domain, allowBroad) = Undefined THEN {domain}
    ELSE Range(permuteDomain(domain, allowBroad))

\* The keys of the records stored under the candidate domains of a request.
CandidateKeys(store, domain, allowBroad) ==
    {k \in DOMAIN store : KeyDomain(k) \in CandidateDomains(domain, allowBroad)}

\* RFC 6265 5.1.4 as the specification words it.
PathMatchRule(storedPath, requestPath) ==
    \/ storedPath = requestPath
    \/ /\ startsWith(requestPath, storedPath)
       /\ storedPath # EmptyString
       /\ storedPath[Len(storedPath)] = "/"
    \/ /\ startsWith(requestPath, storedPath)
       /\ Len(requestPath) > Len(storedPath)
       /\ requestPath[Len(storedPath) + 1] = "/"

\* C3: readMatching returns a record only if its stored domain is in the
\* candidate domain set of the request domain, which holds the request
\* domain and super-domains of it only: a request for foo.example.com with
\* no path filter returns the cookie stored for example.com, and a request
\* for example.com never returns a cookie stored for foo.example.com.
C3_DomainMatch ==
    (IsFindCookies /\ ~Falsy(last.args[1]))
        => LET domain == last.args[1]
               candidates == CandidateDomains(domain, last.args[3])
           IN  /\ candidates \subseteq SelfAndSuperDomains(domain)
               /\ \A c \in Range(last.value) : c.domain \in candidates
               /\ (domain = FOO_EXAMPLE_COM /\ Falsy(last.args[2]))
                    => \A k \in DOMAIN kv :
                          KeyDomain(k) = EXAMPLE_COM
                              => fromJSON(kv[k]) \in Range(last.value)
               /\ domain = EXAMPLE_COM
                    => \A c \in Range(last.value) : c.domain # FOO_EXAMPLE_COM

C3_Witness ==
    /\ IsFindCookies
    /\ last.args[1] = FOO_EXAMPLE_COM
    /\ \E c \in Range(last.value) : c.domain = EXAMPLE_COM
    /\ \E k \in DOMAIN kv :
            KeyDomain(k) \notin CandidateDomains(FOO_EXAMPLE_COM, last.args[3])

\* C4 (as claimed): for a request path that is a string, readMatching
\* includes a record found under a candidate domain if and only if its
\* stored path equals the request path, or is a prefix of it that ends
\* with "/", or is a prefix of it followed in the request path by "/".
C4_PathMatchIff ==
    (IsFindCookies /\ ~Falsy(last.args[1]) /\ last.args[2] # Null)
        => \A k \in CandidateKeys(kv, last.args[1], last.args[3]) :
                fromJSON(kv[k]) \in Range(last.value)
                    <=> PathMatchRule(KeyPath(k), last.args[2])

\* C5: readMatching(domain, null) returns the records stored under every
\* path of every candidate domain, each once, and nothing else; and
\* readMatching(domain, p) returns a subset of readMatching(domain, null)
\* taken on the same store.
C5_NullPathAll ==
    (IsFindCookies /\ ~Falsy(last.args[1]))
        => LET keys == CandidateKeys(kv, last.args[1], last.args[3])
               all == FindCookies(kv, last.args[1], Null, last.args[3]).value
           IN  /\ last.args[2] = Null
                    => /\ Range(last.value) = {fromJSON(kv[k]) : k \in keys}
                       /\ Len(last.value) = Cardinality(keys)
               /\ last.args[2] # Null
                    => /\ Range(last.value) \subseteq Range(all)
                       /\ Len(last.value) <= Len(all)

C5_Witness ==
    /\ IsFindCookies
    /\ last.args[1] = FOO_EXAMPLE_COM
    /\ last.args[2] = Null
    /\ Len(last.value) = 2
    /\ \E c, d \in Range(last.value) :
            c.domain # d.domain /\ c.path # d.path

\* C6 (as claimed): for every request path that is a string, the empty
\* string included, readMatching returns a record only if its stored path
\* path-matches the request path.
C6_OnlyNullMeansAllPaths ==
    (IsFindCookies /\ last.args[2] # Null)
        => \A c \in Range(last.value) : pathMatch(last.args[2], c.path)

(***************************************************************************)
(* Point operations and deletes.                                           *)
(***************************************************************************)
\* The records of a store other than those under the given keys.
Except(store, keys) == [k \in DOMAIN store \ keys |-> store[k]]

\* C7: readOne with an absent domain, path or name resolves to absent and
\* makes no Engine call; with all three present it makes exactly one get,
\* on prefix + [domain, path, name], and resolves to absent when no record
\* is stored there.
C7_ReadOneAbsent ==
    last.op = "findCookie"
        => LET t == <<last.args[1], last.args[2], last.args[3]>>
               k == prefix \o t
           IN  /\ last.status = "resolved"
               /\ Incomplete(t) => last.value = Undefined /\ last.calls = <<>>
               /\ ~Incomplete(t)
                    => /\ last.calls = <<[call |-> "get", key |-> k]>>
                       /\ k \notin DOMAIN kv => last.value = Undefined
                       /\ k \in DOMAIN kv => last.value # Undefined

C7_Witness ==
    /\ last.op = "findCookie"
    /\ last.args[2] = Null
    /\ last.value = Undefined
    /\ \E k \in DOMAIN kv :
            KeyDomain(k) = last.args[1] /\ KeyName(k) = last.args[3]

\* C8: a write of a cookie whose domain, path or name is absent resolves,
\* makes no Engine call and leaves every stored record unchanged.
C8_WriteStep ==
    (last'.op = "putCookie" /\ Incomplete(CookieTriple(last'.args[1])))
        => /\ last'.status = "resolved"
           /\ last'.calls = <<>>
           /\ kv' = kv

C8_IncompleteWriteNoOp == [][C8_WriteStep]_vars

C8_Witness ==
    /\ last.op = "putCookie"
    /\ last.args[1].path = Null
    /\ kv # EmptyKv
    /\ Cardinality(DOMAIN kv) < MaxRecords

\* C9: deleteOne removes the record at its triple and no other: readOne on
\* the triple is then absent, the readAll count is one lower if the record
\* existed and unchanged if not, every other record is unchanged, and a
\* second deleteOne on the triple changes nothing.
C9_DeleteStep ==
    last'.op = "removeCookie"
        => LET t == <<last'.args[1], last'.args[2], last'.args[3]>>
               k == prefix \o t
               existed == ReadOne(kv, t) # Undefined
           IN  /\ last'.status = "resolved"
               /\ ReadOne(kv', t) = Undefined
               /\ ReadAllCount(kv')
                    = ReadAllCount(kv) - (IF existed THEN 1 ELSE 0)
               /\ Except(kv', {k}) = Except(kv, {k})
               /\ ~existed => kv' = kv
               /\ RemoveCookie(kv', t[1], t[2], t[3]).kv = kv'

C9_DeleteOneExact == [][C9_DeleteStep]_vars

C9_Witness ==
    /\ last.op = "removeCookie"
    /\ \E k \in DOMAIN kv :
            /\ KeyDomain(k) = last.args[1]
            /\ KeyPath(k) = last.args[2]
            /\ KeyName(k) # last.args[3]

\* C10: deleteMatching(domain, path) removes exactly the records whose key
\* is [domain, path, *]; the records of the same domain under another
\* path, of another domain, and all their values are unchanged.
C10_DeleteStep ==
    last'.op = "removeCookies"
        => LET region == {k \in DOMAIN kv :
                            /\ KeyDomain(k) = last'.args[1]
                            /\ KeyPath(k) = last'.args[2]}
           IN  /\ last'.status = "resolved"
               /\ kv' = Except(kv, region)
               /\ Range(last'.calls)
                    = {[call |-> "list",
                        key |-> prefix \o <<last'.args[1], last'.args[2]>>]}
                        \cup {[call |-> "delete", key |-> k] : k \in region}

C10_DeleteMatchingExact == [][C10_DeleteStep]_vars

\* A delete of (example.com, /foo) that deleted a record and left one of
\* example.com under /foo/bar, which has /foo as a prefix.
C10_Witness ==
    /\ last.op = "removeCookies"
    /\ last.args = <<EXAMPLE_COM, P_FOO>>
    /\ Len(last.calls) >= 2
    /\ \E k \in DOMAIN kv : KeyDomain(k) = EXAMPLE_COM /\ KeyPath(k) = P_FOO_BAR

(***************************************************************************)
(* Bulk delete of the namespace, update, and the life of a record.         *)
(***************************************************************************)
\* C11: with one operation at a time, once deleteAll has completed readAll
\* returns the empty sequence, whatever the store held before.
C11_DeleteAllEmpties ==
    last.op = "removeAllCookies"
        => /\ last.status = "resolved"
           /\ GetAllCookies(kv).value = <<>>

\* A deleteAll that found two records or more to delete.
C11_Witness ==
    /\ last.op = "removeAllCookies"
    /\ Len(last.calls) >= 3
    /\ GetAllCookies(kv).value = <<>>


\* C12: update(old, new) has exactly the effect of write(new) and ignores
\* old: the same Engine calls, the same store.  When new's triple was stored,
\* readAll's count is unchanged and readOne on the triple reflects new; when
\* old's triple differs from new's, the record of old is not removed and both
\* records are present.
C12_UpdateStep ==
    last'.op = "updateCookie"
        => LET old == last'.args[1]
               new == last'.args[2]
               w   == PutCookie(kv, new)
           IN  /\ kv' = w.kv
               /\ last'.calls = w.calls
               /\ last'.status = w.status
               /\ ~Incomplete(CookieTriple(new))
                    => /\ ReadOne(kv', CookieTriple(new)) = Some(new)
                       /\ ReadOne(kv, CookieTriple(new)) # Undefined
                            => ReadAllCount(kv') = ReadAllCount(kv)
                       /\ (/\ CookieTriple(old) # CookieTriple(new)
                           /\ ReadOne(kv, CookieTriple(old)) # Undefined)
                            => /\ ReadOne(kv', CookieTriple(old))
                                    = ReadOne(kv, CookieTriple(old))
                               /\ ReadAllCount(kv') >= 2

C12_UpdateIsWrite == [][C12_UpdateStep]_vars

\* An update to another triple has left the record of the old cookie next
\* to the record of the new one.
C12_Witness ==
    /\ last.op = "updateCookie"
    /\ CookieTriple(last.args[1]) # CookieTriple(last.args[2])
    /\ ReadOne(kv, CookieTriple(last.args[1])) # Undefined
    /\ ReadOne(kv, CookieTriple(last.args[2])) = Some(last.args[2])

\* C13: removeCookies with the path omitted removes the cookies stored under
\* every path of the domain.
C13_OmittedPathRemovesDomain ==
    (last.op = "removeCookies" /\ last.args[2] = Null)
        => \A k \in DOMAIN kv : KeyDomain(k) # last.args[1]

\* C14: a record stored at a triple stays, with its value, through every
\* operation but a write or update of that triple, a deleteOne of that
\* triple, a deleteMatching on its (domain, path), and deleteAll.  The store
\* holds no clock: no step is taken by the passage of time.
Alters(done, k) ==
    \/ /\ done.op = "putCookie"
       /\ CookieKey(done.args[1].domain, done.args[1].path, done.args[1].key) = k
    \/ /\ done.op = "updateCookie"
       /\ CookieKey(done.args[2].domain, done.args[2].path, done.args[2].key) = k
    \/ /\ done.op = "removeCookie"
       /\ CookieKey(done.args[1], done.args[2], done.args[3]) = k
    \/ /\ done.op = "removeCookies"
       /\ done.args[1] = KeyDomain(k)
       /\ done.args[2] = KeyPath(k)
    \/ done.op = "removeAllCookies"

C14_LifecycleStep ==
    \A k \in DOMAIN kv :
        (k \notin DOMAIN kv' \/ kv'[k] # kv[k]) => Alters(last', k)

C14_RecordLifecycle == [][C14_LifecycleStep]_vars

\* Two records are stored, and the last operation, a read or a delete that
\* names neither, has left both.
C14_Witness ==
    /\ Cardinality(DOMAIN kv) = 2
    /\ last.op \in {"findCookies", "getAllCookies", "removeCookie",
                    "removeCookies"}
    /\ \A k \in DOMAIN kv : ~Alters(last, k)
    /\ \A k \in DOMAIN kv :
           kv[k] = toJSON(written[Triple(KeyDomain(k), KeyPath(k), KeyName(k))])


\* C19: after any sequence of writes, updates and deletes, the last three
\* segments of every key are the (domain, path, name) of the cookie stored
\* there; hence readMatching, which filters on the path segment of the key,
\* returns what filtering on the path of the decoded cookie returns.
KeyMatchesCookie(store, k) ==
    /\ Len(k) = Len(prefix) + 3
    /\ Triple(KeyDomain(k), KeyPath(k), KeyName(k))
         = CookieTriple(fromJSON(store[k]))

C19_KeyValueConsistent ==
    /\ \A k \in DOMAIN kv : KeyMatchesCookie(kv, k)
    /\ (IsFindCookies /\ ~Falsy(last.args[1]) /\ ~Falsy(last.args[2]))
         => LET byCookie ==
                    {k \in CandidateKeys(kv, last.args[1], last.args[3]) :
                        pathMatch(last.args[2], fromJSON(kv[k]).path)}
            IN  /\ Range(last.value) = {fromJSON(kv[k]) : k \in byCookie}
                /\ Len(last.value) = Cardinality(byCookie)

\* After an update whose old cookie names another triple, a readMatching
\* with a path has kept one of two stored records.
C19_Witness ==
    /\ IsFindCookies
    /\ last.args[2] # Null
    /\ Len(last.value) = 1
    /\ Cardinality(DOMAIN kv) = 2
    /\ \E t \in DOMAIN written : written[t].value = V_UPDATED


\* C18: readAll and readMatching skip a stored record that does not decode
\* into a Cookie: they resolve, and return the cookies they return on the
\* store without its undecodable records.
Decodable(store) ==
    [k \in {x \in DOMAIN store : Cookie_fromJSON(store[x]) # Undefined}
        |-> store[k]]

SameCookies(s, t) == Range(s) = Range(t) /\ Len(s) = Len(t)

C18_SkipsUndecodable ==
    /\ last.op = "getAllCookies"
         => /\ last.status = "resolved"
            /\ SameCookies(last.value, GetAllCookies(Decodable(kv)).value)
            /\ Range(last.value)
                 = {fromJSON(kv[k]) : k \in DOMAIN Decodable(kv)}
    /\ last.op = "findCookies"
         => /\ last.status = "resolved"
            /\ SameCookies(last.value,
                           FindCookies(Decodable(kv), last.args[1],
                                       last.args[2], last.args[3]).value)

\* A readMatching with a path whose scan met a record that does not decode
\* and a cookie, both under a matching path.
C18_Witness ==
    /\ last.op = "findCookies"
    /\ last.args[2] # Null
    /\ Len(last.value) = 1
    /\ \E k \in CandidateKeys(kv, last.args[1], last.args[3]) :
           /\ pathMatch(last.args[2], KeyPath(k))
           /\ Cookie_fromJSON(kv[k]) = Undefined


\* C17: when an Engine call of an operation throws, the operation is
\* rejected with that very error and makes no further Engine call; the
\* records a bulk delete had deleted before the failure stay deleted, and
\* every other record is still stored with its value.
OnWorkingEngine(store, op, args) ==
    CASE op = "findCookie" -> FindCookie(store, args[1], args[2], args[3])
      [] op = "findCookies" -> FindCookies(store, args[1], args[2], args[3])
      [] op = "getAllCookies" -> GetAllCookies(store)
      [] op = "putCookie" -> PutCookie(store, args[1])
      [] op = "updateCookie" -> UpdateCookie(store, args[1], args[2])
      [] op = "removeCookie" -> RemoveCookie(store, args[1], args[2], args[3])
      [] op = "removeCookies" -> RemoveCookies(store, args[1], args[2])
      [] op = "removeAllCookies" -> RemoveAllCookies(store)

C17_FailureStep ==
    (fault # NoFault /\ fault' = NoFault)
        => LET r == OnWorkingEngine(kv, last'.op, last'.args)
               before == {r.calls[i].key :
                            i \in {j \in 1..(fault.at - 1) :
                                     r.calls[j].call = "delete"}}
           IN  fault.at <= Len(r.calls)
                 => /\ last'.status = "rejected"
                    /\ last'.error = fault.error
                    /\ last'.calls = SubSeq(r.calls, 1, fault.at)
                    /\ DOMAIN kv' = DOMAIN kv \ before
                    /\ \A k \in DOMAIN kv' : kv'[k] = kv[k]

C17_EngineFailure == [][C17_FailureStep]_vars

\* A bulk delete of two records was rejected at its second delete: one
\* record is gone and the other is stored.
C17_Witness ==
    /\ last.op \in {"removeAllCookies", "removeCookies"}
    /\ last.status = "rejected"
    /\ last.error \in EngineErrors
    /\ Len(last.calls) >= 3
    /\ Cardinality(DOMAIN kv) >= 1


\* C20: an operation of the store with prefix P makes Engine calls only on
\* keys that begin with P, leaves every entry whose key does not begin with
\* P as it was, and returns what it returns on the entries under P alone;
\* and, the prefixes of two stores not beginning with one another, an
\* operation of one store changes the result of no read of the other.
StoreOps ==
    {"findCookie", "findCookies", "getAllCookies", "putCookie", "updateCookie",
     "removeCookie", "removeCookies", "removeAllCookies"}

OtherOps ==
    {"other.putCookie", "other.getAllCookies", "other.removeCookies",
     "other.removeAllCookies"}

Under(store, keyPrefix) ==
    [k \in {x \in DOMAIN store : startsWith(x, keyPrefix)} |-> store[k]]

\* The results of the reads of the store on an Engine.
Reads(store) ==
    [all |-> GetAllCookies(store).value,
     one |-> [d \in Domains |-> FindCookie(store, d, P_FOO, N_FOO).value],
     matching |-> [d \in Domains |->
                     <<FindCookies(store, d, Null, FALSE).value,
                       FindCookies(store, d, P_FOO_BAR, FALSE).value>>]]

Confined(keyPrefix) ==
    /\ \A i \in 1..Len(last'.calls) : startsWith(last'.calls[i].key, keyPrefix)
    /\ \A k \in DOMAIN kv \cup DOMAIN kv' :
           ~startsWith(k, keyPrefix)
               => /\ k \in DOMAIN kv \cap DOMAIN kv'
                  /\ kv'[k] = kv[k]

C20_Step ==
    /\ last'.op \in StoreOps
         => /\ Confined(prefix)
            /\ last'.value
                 = OnWorkingEngine(Under(kv, prefix), last'.op, last'.args).value
            /\ Reads(Swap(kv')) = Reads(Swap(kv))
    /\ last'.op \in OtherOps
         => /\ Confined(otherPrefix)
            /\ Reads(kv') = Reads(kv)

C20_NamespaceIsolation == [][C20_Step]_vars

\* deleteAll of one store has deleted a record while the other store holds
\* a cookie, which it still holds.
C20_Witness ==
    /\ last.op = "removeAllCookies"
    /\ Len(last.calls) >= 2
    /\ GetAllCookies(kv).value = <<>>
    /\ GetAllCookies(Swap(kv)).value # <<>>


\* C15: a bulk delete is not atomic.  Each of its deletes removes the key it
\* scanned, whatever record the key holds by then, and it resolves when its
\* scan is exhausted, whatever the store holds by then.  Hence the two
\* interleavings of C15_Witness, after which the store is not empty under
\* the prefix although the bulk delete has resolved.
BulkDeletes == {"removeAllCookies", "removeCookies"}

\* The step is an Engine call, or the resolution, of the operation of c.
Acts(c) ==
    \/ pending'[c].calls # pending[c].calls
    \/ pending'[c].pc # pending[c].pc

C15_BulkDeleteStep ==
    \A c \in DOMAIN pending :
        (pending[c].pc = "deleting" /\ Acts(c))
            => IF pending[c].scan # <<>>
               THEN /\ kv' = KvDelete(kv, Head(pending[c].scan).key)
                    /\ pending'[c].pc = "deleting"
               ELSE /\ kv' = kv
                    /\ pending'[c].pc = "settled"
                         => /\ last'.op = pending[c].op
                            /\ last'.status = "resolved"

C15_BulkDeleteNotAtomic == [][C15_BulkDeleteStep]_vars

\* A bulk delete has just resolved; it deleted a record written after its
\* scan, which is gone, and a record inserted under its prefix after its
\* scan is still stored.
C15_Witness ==
    \E c \in DOMAIN pending :
        /\ pending[c].op \in BulkDeletes
        /\ pending[c].pc = "settled"
        /\ last.op = pending[c].op
        /\ last.calls = pending[c].calls
        /\ \E k \in pending[c].wiped : k \notin DOMAIN kv
        /\ \E k \in DOMAIN kv :
               /\ startsWith(k, ScanPrefix(pending[c].op, pending[c].args))
               /\ \A i \in 1..Len(last.calls) : last.calls[i].key # k

\* C16: the operation that completed last being a write, and no bulk delete
\* being at its deletes, the store holds exactly one record for the triple
\* of that write, with the value of that write, whichever writes to the
\* triple were in flight with it; the write resolved.
C16_LastWriterWins ==
    (/\ last.op = "putCookie"
     /\ \A c \in DOMAIN pending : pending[c].pc # "deleting")
        => LET cookie == last.args[1]
               k == CookieKey(cookie.domain, cookie.path, cookie.key)
           IN  /\ last.status = "resolved"
               /\ k \in DOMAIN kv
               /\ kv[k] = toJSON(cookie)
               /\ ReadOne(kv, CookieTriple(cookie)) = Some(cookie)
               /\ Cardinality({x \in DOMAIN kv :
                                 SubSeq(x, 1, Len(k)) = k}) = 1

\* Two writes of different values to one triple were in flight together;
\* both have completed, and the one called first completed last.
C16_Witness ==
    \E c, d \in DOMAIN pending :
        /\ pending[c].op = "putCookie" /\ pending[c].pc = "settled"
        /\ pending[d].op = "putCookie" /\ pending[d].pc = "settled"
        /\ ~pending[c].overlapped
        /\ pending[d].overlapped
        /\ CookieTriple(pending[c].args[1]) = CookieTriple(pending[d].args[1])
        /\ pending[c].args[1].value # pending[d].args[1].value
        /\ last.op = "putCookie"
        /\ last.args[1] = pending[c].args[1]


\* C21: whatever writes and deletes are in flight with it, a bulk delete
\* removes only records of its own region (for deleteMatching(d, p): of
\* domain d and of path exactly p) and changes no other; and when it
\* resolves, every record that was in its region when it was called, and
\* that no write has set since, is absent.
InRegion(c, k) ==
    IF pending[c].op = "removeCookies"
    THEN /\ startsWith(k, prefix)
         /\ KeyDomain(k) = pending[c].args[1]
         /\ KeyPath(k) = pending[c].args[2]
    ELSE startsWith(k, prefix)

C21_BulkDeleteStep ==
    \A c \in DOMAIN pending :
        (pending[c].op \in BulkDeletes /\ Acts(c))
            => /\ \A k \in DOMAIN kv \ DOMAIN kv' : InRegion(c, k)
               /\ \A k \in DOMAIN kv' : k \in DOMAIN kv /\ kv'[k] = kv[k]
               /\ pending'[c].pc = "settled"
                    => /\ last'.status = "resolved"
                       /\ \A k \in pending[c].region \ pending[c].rewritten :
                              k \notin DOMAIN kv'

C21_BulkDeleteRegion == [][C21_BulkDeleteStep]_vars

\* A deleteAll has just resolved, after a scan of more than one batch: of
\* the two records stored when it was called, the one no write has set
\* since is gone, and the one set since is stored.
C21_Witness ==
    \E c \in DOMAIN pending :
        /\ pending[c].op = "removeAllCookies"
        /\ pending[c].pc = "settled"
        /\ last.op = "removeAllCookies"
        /\ last.calls = pending[c].calls
        /\ Cardinality({i \in 1..Len(last.calls) :
                          last.calls[i].call = "list"}) >= 2
        /\ Cardinality(pending[c].region) = 2
        /\ \E k \in pending[c].region \ pending[c].rewritten : k \notin DOMAIN kv
        /\ \E k \in pending[c].region \cap pending[c].rewritten : k \in DOMAIN kv

====
